---- MODULE Spec2Model ----
(***************************************************************************)
(* watchlichesstv: the curl write callback LichessTV::write                *)
(* (src/src/lichess.rs) as a state machine.  The transport (curl) hands    *)
(* the handler one chunk of the feed at a time; the handler decodes it,    *)
(* stores the event in the LichessTV fields and redraws the board.  Every  *)
(* fallible call in the handler is followed by unwrap(): a failure is a    *)
(* panic, which ends the transfer and the process.                         *)
(*                                                                         *)
(* Texts the handler parses are sequences of one-character strings, so     *)
(* that splitting and parsing are computed and not assumed.                *)
(* Unsigned 32-bit values are held as the integer of the same bit pattern  *)
(* in -2^31 .. 2^31-1: a negative number n stands for 2^32 + n.            *)
(***************************************************************************)
EXTENDS Integers, Sequences, FiniteSets, TLC

\* number of chunks the feed hands to the handler in one run
MaxChunks == 2

(***************************************************************************)
(* serde_json values                                                       *)
(***************************************************************************)
JStr(s) == [ty |-> "string", v |-> s]
JNum(n) == [ty |-> "number", v |-> n]
JArr(a) == [ty |-> "array", v |-> a]
JObj(o) == [ty |-> "object", v |-> o]
JNull == [ty |-> "null", v |-> 0]

(***************************************************************************)
(* Position texts of the feed                                              *)
(***************************************************************************)
Cat8(a, b, c, d, e, f, g, h) ==
    a \o <<"/">> \o b \o <<"/">> \o c \o <<"/">> \o d \o <<"/">> \o
    e \o <<"/">> \o f \o <<"/">> \o g \o <<"/">> \o h

BackBlack == <<"r", "n", "b", "q", "k", "b", "n", "r">>
PawnsBlack == <<"p", "p", "p", "p", "p", "p", "p", "p">>
PawnsWhite == <<"P", "P", "P", "P", "P", "P", "P", "P">>
BackWhite == <<"R", "N", "B", "Q", "K", "B", "N", "R">>
Empty8 == <<"8">>

\* "rnbqkbnr/pppppppp/8/8/8/8/PPPPPPPP/RNBQKBNR"
FenStart ==
    Cat8(BackBlack, PawnsBlack, Empty8, Empty8, Empty8, Empty8, PawnsWhite, BackWhite)

\* "rnbqkbnr/pppppppp/8/8/4P3/8/PPPP1PPP/RNBQKBNR"
FenE4 ==
    Cat8(BackBlack, PawnsBlack, Empty8, Empty8, <<"4", "P", "3">>, Empty8,
         <<"P", "P", "P", "P", "1", "P", "P", "P">>, BackWhite)

\* "rnbqkbnr/pppp1ppp/8/4p3/4P3/8/PPPP1PPP/RNBQKBNR"
FenE4E5 ==
    Cat8(BackBlack, <<"p", "p", "p", "p", "1", "p", "p", "p">>, Empty8,
         <<"4", "p", "3">>, <<"4", "P", "3">>, Empty8,
         <<"P", "P", "P", "P", "1", "P", "P", "P">>, BackWhite)

\* "rnbqkbnr/pppppppp/8/8/9/PPPPPPPP/RNBQKBNR": seven ranks, one of nine squares
FenBroken ==
    BackBlack \o <<"/">> \o PawnsBlack \o <<"/", "8", "/", "8", "/", "9", "/">> \o
    PawnsWhite \o <<"/">> \o BackWhite

(***************************************************************************)
(* fen::BoardState::from_fen, the notation parser the handler calls        *)
(***************************************************************************)
RECURSIVE SplitAcc(_, _, _, _)
SplitAcc(s, sep, cur, acc) ==
    IF s = <<>> THEN Append(acc, cur)
    ELSE IF Head(s) = sep THEN SplitAcc(Tail(s), sep, <<>>, Append(acc, cur))
    ELSE SplitAcc(Tail(s), sep, Append(cur, Head(s)), acc)

\* str::split: the pieces of s between occurrences of sep
Split(s, sep) == SplitAcc(s, sep, <<>>, <<>>)

NoPiece == [kind |-> "None", color |-> "None"]

PieceOf(c) ==
    CASE c = "p" -> [kind |-> "Pawn", color |-> "Black"]
      [] c = "n" -> [kind |-> "Knight", color |-> "Black"]
      [] c = "b" -> [kind |-> "Bishop", color |-> "Black"]
      [] c = "r" -> [kind |-> "Rook", color |-> "Black"]
      [] c = "q" -> [kind |-> "Queen", color |-> "Black"]
      [] c = "k" -> [kind |-> "King", color |-> "Black"]
      [] c = "P" -> [kind |-> "Pawn", color |-> "White"]
      [] c = "N" -> [kind |-> "Knight", color |-> "White"]
      [] c = "B" -> [kind |-> "Bishop", color |-> "White"]
      [] c = "R" -> [kind |-> "Rook", color |-> "White"]
      [] c = "Q" -> [kind |-> "Queen", color |-> "White"]
      [] c = "K" -> [kind |-> "King", color |-> "White"]
      [] OTHER -> NoPiece

PieceChars == {"p", "n", "b", "r", "q", "k", "P", "N", "B", "R", "Q", "K"}

DigitOf(c) ==
    CASE c = "0" -> 0 [] c = "1" -> 1 [] c = "2" -> 2 [] c = "3" -> 3
      [] c = "4" -> 4 [] c = "5" -> 5 [] c = "6" -> 6 [] c = "7" -> 7
      [] c = "8" -> 8 [] c = "9" -> 9 [] OTHER -> -1

Blanks(n) == [i \in 1..n |-> NoPiece]

BadSquare == [kind |-> "Bad", color |-> "None"]

RECURSIVE RankSquares(_)
\* the squares one rank text stands for; BadSquare for a character that is
\* neither a piece letter nor a digit 1..8
RankSquares(r) ==
    IF r = <<>> THEN <<>>
    ELSE LET c == Head(r)
             rest == RankSquares(Tail(r))
         IN IF c \in PieceChars THEN <<PieceOf(c)>> \o rest
            ELSE IF DigitOf(c) \in 1..8 THEN Blanks(DigitOf(c)) \o rest
            ELSE <<BadSquare>> \o rest

GoodRank(row) == Len(row) = 8 /\ \A i \in 1..Len(row) : row[i] # BadSquare

RECURSIVE Flatten(_)
Flatten(rows) == IF rows = <<>> THEN <<>> ELSE Head(rows) \o Flatten(Tail(rows))

IsNumber(s) == Len(s) > 0 /\ \A i \in 1..Len(s) : DigitOf(s[i]) >= 0

IsSquareName(s) ==
    /\ Len(s) = 2
    /\ s[1] \in {"a", "b", "c", "d", "e", "f", "g", "h"}
    /\ DigitOf(s[2]) \in 1..8

FenErr(e) == [ok |-> FALSE, err |-> e, pieces |-> <<>>, side_to_play |-> "None"]

\* Six space-separated fields; the placement has eight ranks of eight squares,
\* listed a8..h8, a7..h7, ..., a1..h1; the second field is the side to move.
\* The castling field is read for the letters KQkq only, so any text passes.
from_fen(s) ==
    LET parts == Split(s, " ")
    IN IF Len(parts) # 6 THEN FenErr("NotEnoughParts")
       ELSE LET ranks == Split(parts[1], "/")
                rows == [i \in 1..Len(ranks) |-> RankSquares(ranks[i])]
            IN IF Len(ranks) # 8 THEN FenErr("BadPlacement")
               ELSE IF \E i \in 1..8 : ~GoodRank(rows[i])
                   THEN FenErr("BadPlacement")
               ELSE IF parts[2] \notin {<<"w">>, <<"b">>} THEN FenErr("NoSuchSide")
               ELSE IF ~(parts[4] = <<"-">> \/ IsSquareName(parts[4]))
                   THEN FenErr("BadEnPassant")
               ELSE IF ~IsNumber(parts[5]) THEN FenErr("BadHalfmove")
               ELSE IF ~IsNumber(parts[6]) THEN FenErr("BadFullmove")
               ELSE [ok |-> TRUE, err |-> "None", pieces |-> Flatten(rows),
                     side_to_play |-> IF parts[2] = <<"w">> THEN "White" ELSE "Black"]

\* the BoardState of a successful parse
BoardOf(r) == [pieces |-> r.pieces, side_to_play |-> r.side_to_play]

(***************************************************************************)
(* The feed: the JSON documents of the lines the server sends              *)
(***************************************************************************)
UserJ(name, id) == JObj([name |-> JStr(name), id |-> JStr(id)])
TitledUserJ(name, title, id) ==
    JObj([name |-> JStr(name), title |-> JStr(title), id |-> JStr(id)])
PlayerJ(color, user, rating, seconds) ==
    JObj([color |-> JStr(color), user |-> user, rating |-> JNum(rating),
          seconds |-> JNum(seconds)])

RosterA ==
    JArr(<<PlayerJ("white", UserJ("alice", "alice"), 2700, 180),
           PlayerJ("black", TitledUserJ("Bob", "GM", "bob"), 2650, 180)>>)
RosterB ==
    JArr(<<PlayerJ("black", UserJ("carol", "carol"), 1500, 60),
           PlayerJ("white", UserJ("dave", "dave"), 1480, 60)>>)

Line(t, d) == [json |-> TRUE, v |-> [t |-> JStr(t), d |-> JObj(d)]]

\* {"t":"featured","d":{"id":"abc","orientation":"black","players":[...],"fen":"rnbqkbnr/.../RNBQKBNR"}}
DocSummary ==
    Line("featured", [id |-> JStr("abc"), orientation |-> JStr("black"),
                      players |-> RosterA, fen |-> JStr(FenStart)])
DocSummaryWhite ==
    Line("featured", [id |-> JStr("xyz"), orientation |-> JStr("white"),
                      players |-> RosterB, fen |-> JStr(FenE4E5)])
\* a summary whose position text the notation parser rejects
DocSummaryBadFen ==
    Line("featured", [id |-> JStr("bad"), orientation |-> JStr("white"),
                      players |-> RosterB, fen |-> JStr(FenBroken)])
\* a summary without its "players" field
DocSummaryNoPlayers ==
    Line("featured", [id |-> JStr("abc"), orientation |-> JStr("white"),
                      fen |-> JStr(FenStart)])
\* {"t":"fen","d":{"fen":"rnbqkbnr/pppppppp/8/8/4P3/8/PPPP1PPP/RNBQKBNR b","lm":"e2e4","wc":600,"bc":600}}
DocUpdate ==
    Line("fen", [fen |-> JStr(FenE4 \o <<" ", "b">>), lm |-> JStr("e2e4"),
                 wc |-> JNum(600), bc |-> JNum(600)])
DocUpdate2 ==
    Line("fen", [fen |-> JStr(FenE4E5 \o <<" ", "w">>), lm |-> JStr("e7e5"),
                 wc |-> JNum(2147483647), bc |-> JNum(0)])
\* the same update as DocUpdate, its position text without the side to move
DocUpdateBare ==
    Line("fen", [fen |-> JStr(FenE4), lm |-> JStr("e2e4"),
                 wc |-> JNum(600), bc |-> JNum(600)])
\* an update whose white clock is not an unsigned number
DocUpdateNegClock ==
    Line("fen", [fen |-> JStr(FenE4 \o <<" ", "b">>), lm |-> JStr("e2e4"),
                 wc |-> JNum(-1), bc |-> JNum(600)])
\* a line of a kind this program does not know
DocOther == Line("other", [fen |-> JStr(FenE4 \o <<" ", "b">>)])
\* a line that is not JSON
DocGarbage == [json |-> FALSE, v |-> <<>>]

DocNames ==
    {"Summary", "SummaryWhite", "SummaryBadFen", "SummaryNoPlayers", "Update",
     "Update2", "UpdateBare", "UpdateNegClock", "Other", "Garbage"}

Doc(name) ==
    CASE name = "Summary" -> DocSummary
      [] name = "SummaryWhite" -> DocSummaryWhite
      [] name = "SummaryBadFen" -> DocSummaryBadFen
      [] name = "SummaryNoPlayers" -> DocSummaryNoPlayers
      [] name = "Update" -> DocUpdate
      [] name = "Update2" -> DocUpdate2
      [] name = "UpdateBare" -> DocUpdateBare
      [] name = "UpdateNegClock" -> DocUpdateNegClock
      [] name = "Other" -> DocOther
      [] OTHER -> DocGarbage

\* A chunk is the bytes curl hands to write(): whether they are UTF-8, and the
\* text as its pieces: a whole line of the feed, or the head or the tail of a
\* line that the transport cut in two.
OneLine(d) == [utf8 |-> TRUE, text |-> <<[part |-> "line", doc |-> d]>>]

\* the chunks of the model: each document alone on its line, and
\*   NotUtf8   the bytes of an update with a byte that is not UTF-8 among them
\*   TwoLines  two updates, each on its line, in one chunk
\*   Head/Tail an update cut in two by the transport
\*   Empty     no bytes
ChunkNames == DocNames \cup {"NotUtf8", "TwoLines", "Head", "Tail", "Empty"}

Chunk(name) ==
    CASE name \in DocNames -> OneLine(name)
      [] name = "NotUtf8" -> [utf8 |-> FALSE, text |-> <<[part |-> "line", doc |-> "Update"]>>]
      [] name = "TwoLines" ->
            [utf8 |-> TRUE, text |-> <<[part |-> "line", doc |-> "Update"],
                                       [part |-> "line", doc |-> "Update2"]>>]
      [] name = "Head" -> [utf8 |-> TRUE, text |-> <<[part |-> "head", doc |-> "Update2"]>>]
      [] name = "Tail" -> [utf8 |-> TRUE, text |-> <<[part |-> "tail", doc |-> "Update2"]>>]
      [] OTHER -> [utf8 |-> TRUE, text |-> <<>>]

(***************************************************************************)
(* serde: the derived Deserialize of the feed types                        *)
(***************************************************************************)
Has(o, f) == f \in DOMAIN o
IsString(o, f) == Has(o, f) /\ o[f].ty = "string"
\* u32: a JSON integer that is not negative
IsU32(o, f) == Has(o, f) /\ o[f].ty = "number" /\ o[f].v >= 0
\* PlayerKind, rename_all = "lowercase"
IsPlayerKind(o, f) == IsString(o, f) /\ o[f].v \in {"black", "white"}
PlayerKindOf(s) == IF s = "black" THEN "Black" ELSE "White"

IsUser(j) ==
    /\ j.ty = "object"
    /\ IsString(j.v, "name")
    /\ IsString(j.v, "id")
    /\ Has(j.v, "title") => j.v["title"].ty \in {"string", "null"}

UserOf(j) ==
    [name |-> j.v["name"].v,
     title |-> IF Has(j.v, "title") /\ j.v["title"].ty = "string"
               THEN [some |-> TRUE, v |-> j.v["title"].v]
               ELSE [some |-> FALSE, v |-> ""],
     id |-> j.v["id"].v]

IsPlayer(j) ==
    /\ j.ty = "object"
    /\ IsPlayerKind(j.v, "color")
    /\ Has(j.v, "user") /\ IsUser(j.v["user"])
    /\ IsU32(j.v, "rating")
    /\ IsU32(j.v, "seconds")

PlayerOf(j) ==
    [color |-> PlayerKindOf(j.v["color"].v), user |-> UserOf(j.v["user"]),
     rating |-> j.v["rating"].v, seconds |-> j.v["seconds"].v]

JsonErr(e) == [ok |-> FALSE, err |-> e, ev |-> [kind |-> "None"]]

FeaturedTVGameSummary(d) ==
    IF /\ IsString(d, "id")
       /\ IsPlayerKind(d, "orientation")
       /\ Has(d, "players") /\ d["players"].ty = "array"
       /\ \A i \in 1..Len(d["players"].v) : IsPlayer(d["players"].v[i])
       /\ IsString(d, "fen")
    THEN [ok |-> TRUE, err |-> "None",
          ev |-> [kind |-> "Summary", id |-> d["id"].v,
                  orientation |-> PlayerKindOf(d["orientation"].v),
                  players |-> [i \in 1..Len(d["players"].v) |-> PlayerOf(d["players"].v[i])],
                  fen |-> d["fen"].v]]
    ELSE JsonErr("MalformedPayload")

FeaturedTVGameUpdate(d) ==
    IF IsString(d, "fen") /\ IsString(d, "lm") /\ IsU32(d, "wc") /\ IsU32(d, "bc")
    THEN [ok |-> TRUE, err |-> "None",
          ev |-> [kind |-> "Update", fen |-> d["fen"].v, last_move |-> d["lm"].v,
                  white_clock |-> d["wc"].v, black_clock |-> d["bc"].v]]
    ELSE JsonErr("MalformedPayload")

\* the adjacently tagged enum: "t" names the variant, "d" holds its content
FeaturedTVGameFeed(doc) ==
    IF ~doc.json THEN JsonErr("Syntax")
    ELSE IF ~IsString(doc.v, "t") THEN JsonErr("MalformedPayload")
    ELSE IF doc.v["t"].v \notin {"featured", "fen"} THEN JsonErr("UnknownVariant")
    ELSE IF ~(Has(doc.v, "d") /\ doc.v["d"].ty = "object") THEN JsonErr("MalformedPayload")
    ELSE IF doc.v["t"].v = "featured" THEN FeaturedTVGameSummary(doc.v["d"].v)
    ELSE FeaturedTVGameUpdate(doc.v["d"].v)

\* serde_json::from_str on the text of a whole chunk: one JSON value and
\* nothing but white space after it
from_str(text) ==
    IF text = <<>> THEN JsonErr("Eof")
    ELSE IF text[1].part # "line" THEN JsonErr("Syntax")
    ELSE LET first == FeaturedTVGameFeed(Doc(text[1].doc))
         IN IF ~first.ok THEN first
            ELSE IF Len(text) > 1 THEN JsonErr("TrailingCharacters")
            ELSE first

\* std::str::from_utf8
from_utf8(data) == data.utf8

(***************************************************************************)
(* LichessTV                                                               *)
(***************************************************************************)
\* "rnbqkbnr/pppppppp/8/8/8/8/PPPPPPPP/RNBQKBNR w KQkq - 0 1"
NewFen == FenStart \o <<" ", "w", " ", "K", "Q", "k", "q", " ", "-", " ", "0", " ", "1">>

\* new() with the two camps of the starting position exchanged
newExchanged ==
    [players |-> <<>>,
     last_move |-> "",
     board |-> BoardOf(from_fen(
                  Cat8(BackWhite, PawnsWhite, Empty8, Empty8, Empty8, Empty8,
                       PawnsBlack, BackBlack)
                  \o <<" ", "w", " ", "K", "Q", "k", "q", " ", "-", " ", "0", " ", "1">>)),
     board_orientation |-> "White",
     white_clock |-> 0,
     black_clock |-> 0]

\* LichessTV::new
new ==
    [players |-> <<>>,
     last_move |-> "",
     board |-> BoardOf(from_fen(NewFen)),
     board_orientation |-> "White",
     white_clock |-> 0,
     black_clock |-> 0]

\* " w c - 1 1"
SummarySuffix == <<" ", "w", " ", "c", " ", "-", " ", "1", " ", "1">>
\* the update arm pushing the suffix of the summary arm
UpdateSuffixOfSummary == SummarySuffix

\* " c - 1 1"
UpdateSuffix == <<" ", "c", " ", "-", " ", "1", " ", "1">>

\* the summary arm storing the orientation before the position text is parsed
SummaryArmOrientationFirst(self, summary) ==
    LET parsed == from_fen(summary.fen \o SummarySuffix)
        turned == [self EXCEPT !.board_orientation = summary.orientation]
    IN IF ~parsed.ok THEN [panic |-> "FenError", self |-> turned]
       ELSE [panic |-> "None",
             self |-> [turned EXCEPT !.board = BoardOf(parsed),
                                     !.players = summary.players]]

\* the summary arm starting the clocks of the new game from the roster's
\* seconds and forgetting the last move
SummaryArmResetsClocks(self, summary) ==
    LET parsed == from_fen(summary.fen \o SummarySuffix)
        seconds(i) == IF Len(summary.players) >= i
                      THEN summary.players[i].seconds ELSE 0
    IN IF ~parsed.ok THEN [panic |-> "FenError", self |-> self]
       ELSE [panic |-> "None",
             self |-> [self EXCEPT !.board = BoardOf(parsed),
                                   !.board_orientation = summary.orientation,
                                   !.players = summary.players,
                                   !.last_move = "",
                                   !.white_clock = seconds(1),
                                   !.black_clock = seconds(2)]]

\* the FeaturedTVGameSummary arm of write(): unwrap() panics on a rejected
\* position text before any field is assigned
SummaryArm(self, summary) ==
    LET parsed == from_fen(summary.fen \o SummarySuffix)
    IN IF ~parsed.ok THEN [panic |-> "FenError", self |-> self]
       ELSE [panic |-> "None",
             self |-> [self EXCEPT !.board = BoardOf(parsed),
                                   !.board_orientation = summary.orientation,
                                   !.players = summary.players]]

\* the update arm turning the board to the side that is to move
UpdateArmTurnsBoard(self, update) ==
    LET parsed == from_fen(update.fen \o UpdateSuffix)
    IN IF ~parsed.ok THEN [panic |-> "FenError", self |-> self]
       ELSE [panic |-> "None",
             self |-> [self EXCEPT !.board = BoardOf(parsed),
                                   !.board_orientation = parsed.side_to_play,
                                   !.last_move = update.last_move,
                                   !.white_clock = update.white_clock,
                                   !.black_clock = update.black_clock]]

\* the update arm storing whatever the parser returned, rejected or not
UpdateArmKeepsRejected(self, update) ==
    LET parsed == from_fen(update.fen \o UpdateSuffix)
    IN [panic |-> IF parsed.ok THEN "None" ELSE "FenError",
        self |-> [self EXCEPT !.board = BoardOf(parsed),
                              !.last_move = update.last_move,
                              !.white_clock = update.white_clock,
                              !.black_clock = update.black_clock]]

\* the update arm with the two clocks exchanged
UpdateArmSwapsClocks(self, update) ==
    LET parsed == from_fen(update.fen \o UpdateSuffix)
    IN IF ~parsed.ok THEN [panic |-> "FenError", self |-> self]
       ELSE [panic |-> "None",
             self |-> [self EXCEPT !.board = BoardOf(parsed),
                                   !.last_move = update.last_move,
                                   !.white_clock = update.black_clock,
                                   !.black_clock = update.white_clock]]

\* the FeaturedTVGameUpdate arm of write()
UpdateArm(self, update) ==
    LET parsed == from_fen(update.fen \o UpdateSuffix)
    IN IF ~parsed.ok THEN [panic |-> "FenError", self |-> self]
       ELSE [panic |-> "None",
             self |-> [self EXCEPT !.board = BoardOf(parsed),
                                   !.last_move = update.last_move,
                                   !.white_clock = update.white_clock,
                                   !.black_clock = update.black_clock]]

(***************************************************************************)
(* draw_chess_board                                                        *)
(***************************************************************************)
\* a < b on u32 values
ULess(a, b) ==
    IF (a >= 0) = (b >= 0) THEN a < b ELSE a >= 0

\* the cell text with a Black piece centred as a White piece is
piece_characterCentred(a_piece) ==
    LET glyph ==
            CASE a_piece.kind = "Pawn" -> "CHESS PAWN"
              [] a_piece.kind = "Knight" -> "CHESS KNIGHT"
              [] a_piece.kind = "Bishop" -> "CHESS BISHOP"
              [] a_piece.kind = "Rook" -> "CHESS ROOK"
              [] a_piece.kind = "Queen" -> "CHESS QUEEN"
              [] a_piece.kind = "King" -> "CHESS KING"
              [] OTHER -> " "
    IN IF glyph = " " THEN <<" ", " ", " ">>
       ELSE IF a_piece.color = "White" THEN <<" ", "WHITE " \o glyph, " ">>
       ELSE <<" ", "BLACK " \o glyph, " ">>

\* the text of one cell, as its three columns
piece_character(a_piece) ==
    LET glyph ==
            CASE a_piece.kind = "Pawn" -> "CHESS PAWN"
              [] a_piece.kind = "Knight" -> "CHESS KNIGHT"
              [] a_piece.kind = "Bishop" -> "CHESS BISHOP"
              [] a_piece.kind = "Rook" -> "CHESS ROOK"
              [] a_piece.kind = "Queen" -> "CHESS QUEEN"
              [] a_piece.kind = "King" -> "CHESS KING"
              [] OTHER -> " "
    IN IF glyph = " " THEN <<" ", " ", " ">>
       ELSE IF a_piece.color = "White" THEN <<" ", "WHITE " \o glyph, " ">>
       ELSE <<"BLACK " \o glyph, " ", " ">>

\* the background taken from the parity of the square index alone
channelByIndex(n) ==
    IF n % 2 = 0 THEN <<195, 160, 130>> ELSE <<242, 225, 195>>

\* the background of square n
channel(n) ==
    IF (n + (n \div 8)) % 2 = 0 THEN <<195, 160, 130>> ELSE <<242, 225, 195>>

\* where the loop puts square n of a plane of the size (W, H): the row is
\* stepped before the first cell of every rank, the first rank included
CellColumn(W, n) == (W \div 2) - 12 + 3 * (n % 8)
CellRow(H, n) == (H \div 2) - 4 + 1 + (n \div 8)

\* Plane::putstr_at_xy: the three columns of the text must lie on the plane
putstr_ok(W, H, x, y) ==
    /\ ULess(y, H)
    /\ ULess(x, W) /\ ULess(x + 2, W) /\ ~ULess(x + 2, x)

SurfaceCall(op, n, x, y, text, bg) ==
    [op |-> op, n |-> n, x |-> x, y |-> y, text |-> text, bg |-> bg]

Plain(op) == SurfaceCall(op, -1, 0, 0, <<>>, <<>>)

\* the text of a cell written before its background is set
CellCallsTextFirst(pieces, W, H, n) ==
    <<SurfaceCall("putstr_at_xy", n, CellColumn(W, n), CellRow(H, n),
                  piece_character(pieces[n + 1]), <<>>),
      SurfaceCall("set_bg", n, 0, 0, <<>>, channel(n))>>

CellCalls(pieces, W, H, n) ==
    <<SurfaceCall("set_bg", n, 0, 0, <<>>, channel(n)),
      SurfaceCall("putstr_at_xy", n, CellColumn(W, n), CellRow(H, n),
                  piece_character(pieces[n + 1]), <<>>)>>

RECURSIVE CellsUpTo(_, _, _, _)
\* the calls of the squares 0 .. last
CellsUpTo(pieces, W, H, last) ==
    IF last < 0 THEN <<>>
    ELSE CellsUpTo(pieces, W, H, last - 1) \o CellCalls(pieces, W, H, last)

\* the board drawn from the other side when the orientation is Black
draw_chess_boardTurned(self, plane_size, overflow_checks) ==
    LET W == plane_size[1]
        H == plane_size[2]
        stored == self.board.pieces
        pieces == IF self.board_orientation = "Black"
                  THEN [i \in 1..Len(stored) |-> stored[Len(stored) + 1 - i]]
                  ELSE stored
        underflow == ULess(H \div 2, 4) \/ ULess(W \div 2, 12)
        failing == {n \in 0..(Len(pieces) - 1) :
                        ~putstr_ok(W, H, CellColumn(W, n), CellRow(H, n))}
        first_bad == CHOOSE n \in failing : \A m \in failing : n <= m
        start == <<Plain("new_child"), Plain("move_to"),
                   SurfaceCall("size", -1, W, H, <<>>, <<>>)>>
    IN IF overflow_checks /\ underflow
       THEN [panic |-> "Overflow", calls |-> start]
       ELSE IF failing # {}
       THEN [panic |-> "NcError",
             calls |-> start \o CellsUpTo(pieces, W, H, first_bad)]
       ELSE [panic |-> "None",
             calls |-> start \o CellsUpTo(pieces, W, H, Len(pieces) - 1)
                        \o <<Plain("render_child"), Plain("render")>>]

\* plane_size is (columns, rows), what Plane::size returns; the call is logged
\* with the size as its x and y.  With overflow checks (a debug build) the
\* subtraction of the anchor panics below zero; without them it wraps.
draw_chess_board(self, plane_size, overflow_checks) ==
    LET W == plane_size[1]
        H == plane_size[2]
        pieces == self.board.pieces
        underflow == ULess(H \div 2, 4) \/ ULess(W \div 2, 12)
        failing == {n \in 0..(Len(pieces) - 1) :
                        ~putstr_ok(W, H, CellColumn(W, n), CellRow(H, n))}
        first_bad == CHOOSE n \in failing : \A m \in failing : n <= m
        start == <<Plain("new_child"), Plain("move_to"),
                   SurfaceCall("size", -1, W, H, <<>>, <<>>)>>
    IN IF overflow_checks /\ underflow
       THEN [panic |-> "Overflow", calls |-> start]
       ELSE IF failing # {}
       THEN [panic |-> "NcError",
             calls |-> start \o CellsUpTo(pieces, W, H, first_bad)]
       ELSE [panic |-> "None",
             calls |-> start \o CellsUpTo(pieces, W, H, Len(pieces) - 1)
                        \o <<Plain("render_child"), Plain("render")>>]

(***************************************************************************)
(* Handler::write                                                          *)
(***************************************************************************)
\* the fields are assigned in place: a panic in an arm leaves them as the arm
\* had set them by then
Apply(self, ev) ==
    IF ev.kind = "Summary" THEN SummaryArm(self, ev) ELSE UpdateArm(self, ev)

\* write() with the plane erased after the board is drawn
writeErasesLast(self, data, plane_size, overflow_checks) ==
    IF ~from_utf8(data) THEN [panic |-> "Utf8Error", self |-> self, calls |-> <<>>]
    ELSE LET featured_game == from_str(data.text)
         IN IF ~featured_game.ok
            THEN [panic |-> "JsonError", self |-> self, calls |-> <<>>]
            ELSE LET applied == Apply(self, featured_game.ev)
                     drawn == draw_chess_board(applied.self, plane_size, overflow_checks)
                 IN IF applied.panic # "None"
                    THEN [panic |-> applied.panic, self |-> applied.self, calls |-> <<>>]
                    ELSE [panic |-> drawn.panic, self |-> applied.self,
                          calls |-> IF drawn.panic = "None"
                                    THEN drawn.calls \o <<Plain("erase")>>
                                    ELSE drawn.calls]

\* write() keeping the fields of before the event when the drawing fails
writeRollsBack(self, data, plane_size, overflow_checks) ==
    IF ~from_utf8(data) THEN [panic |-> "Utf8Error", self |-> self, calls |-> <<>>]
    ELSE LET featured_game == from_str(data.text)
         IN IF ~featured_game.ok
            THEN [panic |-> "JsonError", self |-> self, calls |-> <<>>]
            ELSE LET applied == Apply(self, featured_game.ev)
                     drawn == draw_chess_board(applied.self, plane_size, overflow_checks)
                 IN IF applied.panic # "None"
                    THEN [panic |-> applied.panic, self |-> applied.self, calls |-> <<>>]
                    ELSE [panic |-> drawn.panic,
                          self |-> IF drawn.panic = "None" THEN applied.self ELSE self,
                          calls |-> <<Plain("erase")>> \o drawn.calls]

write(self, data, plane_size, overflow_checks) ==
    IF ~from_utf8(data) THEN [panic |-> "Utf8Error", self |-> self, calls |-> <<>>]
    ELSE LET featured_game == from_str(data.text)
         IN IF ~featured_game.ok
            THEN [panic |-> "JsonError", self |-> self, calls |-> <<>>]
            ELSE LET applied == Apply(self, featured_game.ev)
                     drawn == draw_chess_board(applied.self, plane_size, overflow_checks)
                 IN IF applied.panic # "None"
                    THEN [panic |-> applied.panic, self |-> applied.self, calls |-> <<>>]
                    ELSE [panic |-> drawn.panic, self |-> applied.self,
                          calls |-> <<Plain("erase")>> \o drawn.calls]

(***************************************************************************)
(* The run: curl hands the chunks of the feed to write(), one at a time,   *)
(* until a panic ends the transfer.                                        *)
(***************************************************************************)
VARIABLES
    stream,  \* the chunks the server sends, in order
    pos,     \* the place in stream of the next chunk to hand to write()
    tv,      \* the LichessTV
    panic,   \* "None", or the failure the handler panicked with
    calls    \* the calls the last write() made on the drawing surface

vars == <<stream, pos, tv, panic, calls>>

\* the sizes the terminal can have when a chunk arrives: (columns, rows)
PlaneSizes == {<<80, 24>>, <<24, 8>>, <<20, 6>>}

Init ==
    /\ stream \in [1..MaxChunks -> ChunkNames]
    /\ pos = 1
    /\ tv = new
    /\ panic = "None"
    /\ calls = <<>>

Write(plane_size, overflow_checks) ==
    /\ panic = "None"
    /\ pos <= Len(stream)
    /\ LET r == write(tv, Chunk(stream[pos]), plane_size, overflow_checks)
       IN /\ tv' = r.self
          /\ panic' = r.panic
          /\ calls' = r.calls
    /\ pos' = pos + 1
    /\ UNCHANGED stream

Next == \E plane_size \in PlaneSizes, overflow_checks \in BOOLEAN :
            Write(plane_size, overflow_checks)

Spec == Init /\ [][Next]_vars

(***************************************************************************)
(* Properties                                                              *)
(***************************************************************************)
\* the run is over: the handler panicked, or the feed has no more chunks
Done == panic # "None" \/ pos > Len(stream)

\* the panics of draw_chess_board
RenderPanics == {"Overflow", "NcError"}

\* what a chunk decodes to, for a chunk that is one line of UTF-8 text
Decoded(name) == from_str(Chunk(name).text)
IsEvent(name, kind) ==
    /\ Chunk(name).utf8
    /\ Decoded(name).ok
    /\ Decoded(name).ev.kind = kind
SuffixOf(ev) == IF ev.kind = "Summary" THEN SummarySuffix ELSE UpdateSuffix
\* a chunk that is one event whose position text the parser accepts
WellFormed(name) ==
    /\ Chunk(name).utf8
    /\ Decoded(name).ok
    /\ from_fen(Decoded(name).ev.fen \o SuffixOf(Decoded(name).ev)).ok

\* the fields of the "d" object of a document, as the line carries them
Payload(name) == Doc(name).v["d"].v

Square(file, rank) == (8 - rank) * 8 + file
e2 == Square(5, 2)
e4 == Square(5, 4)

WhitePawn == [kind |-> "Pawn", color |-> "White"]

\* the state after the well-formed events of s alone, applied in order
RECURSIVE AfterWellFormed(_, _)
AfterWellFormed(self, s) ==
    IF s = <<>> THEN self
    ELSE AfterWellFormed(
             IF WellFormed(Head(s)) THEN Apply(self, Decoded(Head(s)).ev).self ELSE self,
             Tail(s))

\* C1: when the run is over and every chunk was one line holding an update,
\* well-formed or malformed, or another malformed line, the position is the
\* one that the well-formed updates alone, applied in order, give: a malformed
\* line changes nothing and does not stop the lines after it.
C1_MalformedEventsHaveNoEffect ==
    (/\ Done
     /\ panic \notin RenderPanics
     /\ \A i \in 1..Len(stream) : stream[i] \in DocNames \ {"Summary", "SummaryWhite"})
    => tv.board.pieces = AfterWellFormed(new, stream).board.pieces

\* C2: a write() of a Summary event either replaces position, orientation and
\* roster together by the event's values (the suffixed position text parses), or
\* signals the rejected position and changes no field of the state.
C2_SummaryIsAtomic ==
    [][IsEvent(stream[pos], "Summary") =>
        LET ev == Decoded(stream[pos]).ev
            parsed == from_fen(ev.fen \o SummarySuffix)
        IN IF parsed.ok
           THEN /\ tv'.board = BoardOf(parsed)
                /\ tv'.board_orientation = ev.orientation
                /\ tv'.players = ev.players
           ELSE /\ panic' = "FenError"
                /\ tv' = tv]_vars

\* a rejected Summary came after an applied one: orientation and roster are
\* still those of the first
C2_Witness ==
    /\ pos = 3
    /\ SubSeq(stream, 1, 2) = <<"Summary", "SummaryBadFen">>
    /\ panic = "FenError"
    /\ tv.board_orientation = "Black"
    /\ Len(tv.players) = 2
    /\ tv.players[1].user.name = "alice"

\* C3: a write() of an Update event, applied or rejected, leaves orientation
\* and roster as they were; orientation and roster change only in a write() of
\* a Summary event.
C3_UpdateKeepsOrientationAndRoster ==
    [][/\ IsEvent(stream[pos], "Update") =>
            /\ tv'.board_orientation = tv.board_orientation
            /\ tv'.players = tv.players
       /\ (tv'.board_orientation # tv.board_orientation \/ tv'.players # tv.players)
            => IsEvent(stream[pos], "Summary")]_vars

\* an Update was applied after a Summary had turned the board
C3_Witness ==
    /\ pos = 3
    /\ SubSeq(stream, 1, 2) = <<"Summary", "Update">>
    /\ panic = "None"
    /\ tv.last_move = "e2e4"
    /\ tv.board_orientation = "Black"
    /\ Len(tv.players) = 2

\* C4: a write() of a chunk that is not UTF-8 changes no field of the state,
\* draws nothing, and leaves the handler running for the next chunk.
C4_NotUtf8ChunkIsSkipped ==
    [][~Chunk(stream[pos]).utf8 =>
        /\ tv' = tv
        /\ calls' = <<>>
        /\ panic' = "None"]_vars

\* C5: a write() of a line whose "t" is neither "featured" nor "fen" raises
\* nothing that stops the handler and changes no field of the state.
C5_UnknownKindIsSkipped ==
    [][(/\ Chunk(stream[pos]).utf8
        /\ Len(Chunk(stream[pos]).text) = 1
        /\ Decoded(stream[pos]).err = "UnknownVariant") =>
        /\ tv' = tv
        /\ panic' = "None"]_vars

\* the lines of a feed, whatever the chunks it came in: a whole line as it is,
\* the head of a line kept until its tail arrives
RECURSIVE LinesOf(_, _)
LinesOf(text, pending) ==
    IF text = <<>> THEN <<>>
    ELSE LET seg == Head(text)
         IN IF seg.part = "line" THEN <<seg.doc>> \o LinesOf(Tail(text), pending)
            ELSE IF seg.part = "head" THEN LinesOf(Tail(text), seg.doc)
            ELSE IF pending = seg.doc THEN <<seg.doc>> \o LinesOf(Tail(text), "")
            ELSE <<"Garbage">> \o LinesOf(Tail(text), "")

RECURSIVE TextOf(_)
TextOf(s) == IF s = <<>> THEN <<>> ELSE Chunk(Head(s)).text \o TextOf(Tail(s))

\* C6: when the run is over and the feed was well-formed updates cut into
\* chunks at any place (several lines in a chunk, a line over two chunks, an
\* empty chunk), the state is the one that the lines give, applied in order,
\* and the handler is still running.
C6_ChunkingDoesNotMatter ==
    (/\ Done
     /\ panic \notin RenderPanics
     /\ \A i \in 1..Len(stream) :
            stream[i] \in {"Update", "Update2", "TwoLines", "Head", "Tail", "Empty"}
     /\ \A i \in 1..Len(stream) : stream[i] = "Tail" => i > 1 /\ stream[i - 1] = "Head"
     /\ \A i \in 1..Len(stream) :
            stream[i] = "Head" => i = Len(stream) \/ stream[i + 1] = "Tail")
    => /\ panic = "None"
       /\ tv = AfterWellFormed(new, LinesOf(TextOf(stream), ""))

BackRank ==
    <<"Rook", "Knight", "Bishop", "Queen", "King", "Bishop", "Knight", "Rook">>

\* the starting position, square by square: a8..h8, a7..h7, ..., a1..h1
StandardStart ==
    [i \in 1..64 |->
        CASE i \in 1..8 -> [kind |-> BackRank[i], color |-> "Black"]
          [] i \in 9..16 -> [kind |-> "Pawn", color |-> "Black"]
          [] i \in 49..56 -> [kind |-> "Pawn", color |-> "White"]
          [] i \in 57..64 -> [kind |-> BackRank[i - 56], color |-> "White"]
          [] OTHER -> NoPiece]

\* C7: before any chunk is handled the state holds the standard starting
\* position, White orientation, no players, an empty last move and both clocks
\* at 0.
C7_FreshState ==
    pos = 1 =>
        /\ tv.board.pieces = StandardStart
        /\ tv.board_orientation = "White"
        /\ tv.players = <<>>
        /\ tv.last_move = ""
        /\ tv.white_clock = 0
        /\ tv.black_clock = 0

\* the fresh state: 32 pieces, the white king on e1
C7_Witness ==
    /\ pos = 1
    /\ panic = "None"
    /\ Cardinality({i \in 1..64 : tv.board.pieces[i] # NoPiece}) = 32
    /\ tv.board.pieces[Square(5, 1)] = [kind |-> "King", color |-> "White"]

AfterE2E4 ==
    /\ tv.board.pieces[e2] = NoPiece
    /\ tv.board.pieces[e4] = WhitePawn
    /\ tv.last_move = "e2e4"
    /\ tv.white_clock = 600
    /\ tv.black_clock = 600

\* C8 as stated: after the Summary and then the Update whose position text has
\* no side to move, both are applied: e2 is empty, a white pawn is on e4, the
\* last move is "e2e4" and both clocks are 600.
C8_AsStated ==
    (/\ Done
     /\ panic \notin RenderPanics
     /\ pos >= 2
     /\ SubSeq(stream, 1, 2) = <<"Summary", "UpdateBare">>)
    => /\ pos = 3
       /\ panic = "None"
       /\ AfterE2E4

\* C8: after write() was called with the Summary and then with the Update
\* whose position text ends with the side to move ("... b"), both position texts
\* were parsed and the state has e2 empty, a white pawn on e4, the last move
\* "e2e4" and both clocks at 600.
C8_SummaryThenUpdate ==
    (pos = 3 /\ SubSeq(stream, 1, 2) = <<"Summary", "Update">>)
    => /\ panic \in {"None"} \cup RenderPanics
       /\ AfterE2E4

C8_Witness ==
    /\ pos = 3
    /\ SubSeq(stream, 1, 2) = <<"Summary", "Update">>
    /\ panic = "None"
    /\ AfterE2E4
    /\ Len(calls) > 0

\* C9: in every state the position has exactly 64 entries.
C9_SixtyFourSquares == Len(tv.board.pieces) = 64

\* an Update was rejected after another was applied
C9_Witness ==
    /\ pos = 3
    /\ SubSeq(stream, 1, 2) = <<"Update2", "UpdateBare">>
    /\ panic = "FenError"
    /\ tv.last_move = "e7e5"
    /\ Len(tv.board.pieces) = 64

\* C10: a write() of an Update event whose position text parses leaves the
\* last move and the two clocks equal to the "lm", "wc" and "bc" of the line, and
\* the position equal to the parse of its suffixed position text.
C10_UpdateCopiesVerbatim ==
    [][IsEvent(stream[pos], "Update") =>
        LET d == Payload(stream[pos])
            parsed == from_fen(d["fen"].v \o UpdateSuffix)
        IN parsed.ok =>
            /\ tv'.last_move = d["lm"].v
            /\ tv'.white_clock = d["wc"].v
            /\ tv'.black_clock = d["bc"].v
            /\ tv'.board = BoardOf(parsed)]_vars

\* the update with the largest and the smallest clock was applied
C10_Witness ==
    /\ pos > 1
    /\ stream[pos - 1] = "Update2"
    /\ panic = "None"
    /\ tv.white_clock = 2147483647
    /\ tv.black_clock = 0
    /\ tv.last_move = "e7e5"

(***************************************************************************)
(* The render pass                                                         *)
(***************************************************************************)
\* the places in calls of the calls of the kind op
CallsOf(op) == {i \in 1..Len(calls) : calls[i].op = op}

\* the size the plane had in the pass that calls holds
PassWidth == calls[CHOOSE i \in CallsOf("size") : TRUE].x
PassHeight == calls[CHOOSE i \in CallsOf("size") : TRUE].y

\* C11: in the calls of a write() the clear of the plane is the first call,
\* before every cell write and every render, there is no other clear, and the
\* text of every cell written is that of the square in the state as the event
\* left it.
C11_ClearComesFirst ==
    calls # <<>> =>
        /\ calls[1].op = "erase"
        /\ CallsOf("erase") = {1}
        /\ \A i \in CallsOf("putstr_at_xy") :
               calls[i].text = piece_character(tv.board.pieces[calls[i].n + 1])

\* a whole pass that drew the position of an update
C11_Witness ==
    /\ pos = 2
    /\ stream[1] = "Update"
    /\ panic = "None"
    /\ calls[1].op = "erase"
    /\ \E i \in CallsOf("putstr_at_xy") :
           calls[i].n + 1 = e4 /\ calls[i].text = <<" ", "WHITE CHESS PAWN", " ">>
    /\ CallsOf("render") # {}

\* C12: no call is made on the surface before a chunk arrives, and a write()
\* that returns made one pass: one clear, then for the squares 0 .. 63 in this
\* order one set-background call followed by one write-text call, and the two
\* renders (of the child plane and of the plane) after the last cell.
C12_OnePassPerChunk ==
    /\ pos = 1 => calls = <<>>
    /\ (pos > 1 /\ panic = "None") =>
        /\ Len(calls) = 134
        /\ Cardinality(CallsOf("erase")) = 1
        /\ Cardinality(CallsOf("new_child")) = 1
        /\ \A n \in 0..63 :
               /\ calls[5 + 2 * n].op = "set_bg" /\ calls[5 + 2 * n].n = n
               /\ calls[6 + 2 * n].op = "putstr_at_xy" /\ calls[6 + 2 * n].n = n
        /\ CallsOf("render_child") = {133}
        /\ CallsOf("render") = {134}

\* the second chunk of a feed was handled and drawn
C12_Witness ==
    /\ pos = 3
    /\ SubSeq(stream, 1, 2) = <<"Update", "Update2">>
    /\ panic = "None"
    /\ Cardinality(CallsOf("putstr_at_xy")) = 64
    /\ Cardinality(CallsOf("set_bg")) = 64

\* the pass in calls stopped at a write-text call that the surface refused
RefusedCell == calls # <<>> /\ calls[Len(calls)].op = "putstr_at_xy"

\* C13 as stated: a call that the surface refuses ends the frame only; the
\* handler is still running for the next event.
C13_AsStated == RefusedCell => panic = "None"

\* C13: a write-text call that the surface refuses is not recovered: unwrap()
\* panics, the pass ends at that call with no render, the fields keep the values
\* that the event gave them, and no chunk is handled after the panic.
C13_RenderFailureEndsTheRun ==
    [][/\ panic = "None"
       /\ panic' = "NcError" =>
            /\ calls'[Len(calls')].op = "putstr_at_xy"
            /\ \A i \in 1..Len(calls') : calls'[i].op \notin {"render_child", "render"}
            /\ IsEvent(stream[pos], "Update") =>
                   /\ tv'.last_move = Payload(stream[pos])["lm"].v
                   /\ tv'.white_clock = Payload(stream[pos])["wc"].v
                   /\ tv'.black_clock = Payload(stream[pos])["bc"].v
            /\ IsEvent(stream[pos], "Summary") =>
                   /\ tv'.board_orientation = Decoded(stream[pos]).ev.orientation
                   /\ tv'.players = Decoded(stream[pos]).ev.players]_vars

\* an update was applied, a cell of its pass was refused, and the run is over
\* with a chunk of the feed left
C13_Witness ==
    /\ pos = 2
    /\ pos <= Len(stream)
    /\ stream[1] = "Update"
    /\ panic = "NcError"
    /\ RefusedCell
    /\ tv.last_move = "e2e4"
    /\ tv.white_clock = 600

(***************************************************************************)
(* The layout                                                              *)
(***************************************************************************)
file_index(n) == n % 8
rank_index(n) == n \div 8

DarkSquare == <<195, 160, 130>>
LightSquare == <<242, 225, 195>>

\* the background that the pass in calls gave to square n
BackgroundOf(n) == calls[CHOOSE i \in CallsOf("set_bg") : calls[i].n = n].bg
DrawnSquares == {calls[i].n : i \in CallsOf("set_bg")}

\* C14: the background of every square drawn is one of the two fixed colours,
\* chosen by (file_index + rank_index) mod 2, so two squares next to each other
\* in a rank or in a file never have the same background.
C14_Checkerboard ==
    \A n \in DrawnSquares :
        /\ BackgroundOf(n) =
               IF (file_index(n) + rank_index(n)) % 2 = 0 THEN DarkSquare ELSE LightSquare
        /\ \A m \in DrawnSquares :
               (\/ (rank_index(m) = rank_index(n) /\ file_index(m) = file_index(n) + 1)
                \/ (file_index(m) = file_index(n) /\ rank_index(m) = rank_index(n) + 1))
               => BackgroundOf(m) # BackgroundOf(n)

\* a whole board was drawn: a8 dark, b8 and a7 light, h1 dark
C14_Witness ==
    /\ DrawnSquares = 0..63
    /\ BackgroundOf(0) = DarkSquare
    /\ BackgroundOf(1) = LightSquare
    /\ BackgroundOf(8) = LightSquare
    /\ BackgroundOf(63) = DarkSquare

\* C15: every cell written in a whole pass on a plane of the size (W, H) is at
\* column W div 2 - 12 + 3 * (n mod 8) and row H div 2 - 4 + (n div 8), so that
\* square 0 is at the centre less half the board and the rows drawn are
\* H div 2 - 4 .. H div 2 + 3.
C15_CellPlaces ==
    panic = "None" => \A i \in CallsOf("putstr_at_xy") :
        /\ calls[i].x = (PassWidth \div 2) - 12 + 3 * file_index(calls[i].n)
        /\ calls[i].y = (PassHeight \div 2) - 4 + rank_index(calls[i].n)
        /\ calls[i].y \in ((PassHeight \div 2) - 4)..((PassHeight \div 2) + 3)

\* C18: whatever the size (W, H) of the plane, the anchor H div 2 - 4 and
\* W div 2 - 12 does not go below zero, and every cell written lies on the
\* plane: 0 <= column, column + 3 <= W and 0 <= row < H.
C18_CellsOnThePlane ==
    CallsOf("size") # {} =>
        /\ panic # "Overflow"
        /\ ~ULess(PassHeight \div 2, 4)
        /\ ~ULess(PassWidth \div 2, 12)
        /\ \A i \in CallsOf("putstr_at_xy") :
               /\ 0 <= calls[i].x /\ calls[i].x + 3 <= PassWidth
               /\ 0 <= calls[i].y /\ calls[i].y < PassHeight

\* the cell of square n in the pass that calls holds
CellOf(n) == calls[CHOOSE i \in CallsOf("putstr_at_xy") : calls[i].n = n]

\* C16: the calls of draw_chess_board are the same for two states that differ
\* in the orientation alone, on every plane size; in a whole pass square 0 is
\* the first cell written, at the top left, and the squares 56 .. 63 are in the
\* bottom row.
C16_OrientationIsNotDrawn ==
    /\ \A plane_size \in PlaneSizes, overflow_checks \in BOOLEAN :
           draw_chess_board([tv EXCEPT !.board_orientation = "White"],
                            plane_size, overflow_checks)
           = draw_chess_board([tv EXCEPT !.board_orientation = "Black"],
                              plane_size, overflow_checks)
    /\ (panic = "None" /\ calls # <<>>) =>
           /\ \A i \in CallsOf("putstr_at_xy") :
                  /\ calls[i].n = 0 <=> \A j \in CallsOf("putstr_at_xy") : i <= j
                  /\ CellOf(0).x <= calls[i].x
                  /\ CellOf(0).y <= calls[i].y
                  /\ calls[i].y <= CellOf(56).y
           /\ \A n \in 56..63 : CellOf(n).y = CellOf(56).y

\* a summary turned the orientation to Black and the pass still has the black
\* rook of square 0 as its first cell, above the white rook of square 56
C16_Witness ==
    /\ pos = 2
    /\ stream[1] = "Summary"
    /\ panic = "None"
    /\ tv.board_orientation = "Black"
    /\ CellOf(0).text = <<"BLACK CHESS ROOK", " ", " ">>
    /\ CellOf(56).text = <<" ", "WHITE CHESS ROOK", " ">>
    /\ CellOf(0).y < CellOf(56).y

\* the kinds of fen::PieceKind, and one more for the arm of unknown kinds
PieceKinds == {"Pawn", "Knight", "Bishop", "Rook", "Queen", "King"}
SquareContents ==
    {NoPiece} \cup [kind : PieceKinds \cup {"Other"}, color : {"White", "Black"}]
ThreeBlanks == <<" ", " ", " ">>

\* what C17 says of the text of a square holding content
CellTextAsClaimed(content, text) ==
    /\ Len(text) = 3
    /\ content.kind \notin PieceKinds => text = ThreeBlanks
    /\ (content.kind \in PieceKinds /\ content.color = "White") =>
           /\ text[1] = " " /\ text[2] # " " /\ text[3] = " "
    /\ (content.kind \in PieceKinds /\ content.color = "Black") =>
           /\ text[1] # " " /\ text[2] = " " /\ text[3] = " "

\* C17: the text of a cell has three characters: three blanks for an empty
\* square or an unknown kind, blank-glyph-blank for a White piece of the six
\* kinds, glyph-blank-blank for a Black one; every cell written in a pass has
\* the text of its square's content, and two squares of the same kind and
\* colour have the same text.
C17_CellText ==
    /\ \A content \in SquareContents :
           CellTextAsClaimed(content, piece_character(content))
    /\ \A i \in CallsOf("putstr_at_xy") :
           /\ CellTextAsClaimed(tv.board.pieces[calls[i].n + 1], calls[i].text)
           /\ \A j \in CallsOf("putstr_at_xy") :
                  tv.board.pieces[calls[i].n + 1] = tv.board.pieces[calls[j].n + 1]
                      => calls[i].text = calls[j].text

\* a whole pass after 1. e4 e5 wrote the black pawn of e5, the white pawn of
\* e4 and the emptied square e2
C17_Witness ==
    /\ panic = "None"
    /\ stream[1] = "SummaryWhite"
    /\ pos = 2
    /\ CellOf(Square(5, 5) - 1).text = <<"BLACK CHESS PAWN", " ", " ">>
    /\ CellOf(e4 - 1).text = <<" ", "WHITE CHESS PAWN", " ">>
    /\ CellOf(e2 - 1).text = ThreeBlanks

\* C19: a write() of a Summary event, applied or rejected, leaves last_move,
\* white_clock and black_clock as they were, whatever seconds its roster
\* carries.
C19_SummaryKeepsMoveAndClocks ==
    [][IsEvent(stream[pos], "Summary") =>
            /\ tv'.last_move = tv.last_move
            /\ tv'.white_clock = tv.white_clock
            /\ tv'.black_clock = tv.black_clock]_vars

\* a Summary whose roster carries 180 seconds was applied after an Update: the
\* move and the clocks are still the Update's
C19_Witness ==
    /\ pos = 3
    /\ SubSeq(stream, 1, 2) = <<"Update", "Summary">>
    /\ panic = "None"
    /\ Len(tv.players) = 2
    /\ tv.players[1].seconds = 180
    /\ tv.last_move = "e2e4"
    /\ tv.white_clock = 600
    /\ tv.black_clock = 600
====
